---- MODULE Spec2Model ----
(***************************************************************************)
(* Model of native/cpp/llama_bridge.cpp: the model registry and error      *)
(* channel guarded by g_state_mutex, the ThreadPool (queue, stop flag,     *)
(* worker loop, destructor), the synchronous generation service and the    *)
(* asynchronous request path.                                              *)
(*                                                                         *)
(* Threads are the API callers 1..NumCallers and the worker threads of the *)
(* pool.  A critical section that cannot block inside is one action whose  *)
(* guard is that the mutex is free; a critical section that blocks inside  *)
(* (the relock in set_error, the join in ~ThreadPool) keeps the mutex      *)
(* across steps.                                                           *)
(***************************************************************************)
EXTENDS Integers, Sequences, FiniteSets, TLC

\* ---------------------------------------------------------------- bounds
NumCallers == 2
MaxCalls == 3
MaxReq == 3
MaxHw == 2

\* ------------------------------------------------------ program constants
MinPoolThreads == 2
MaxPoolThreads == 8
DefaultCtx == 2048
DefaultThreads == 4
PlaceholderLen == 155
TaskBufferSize == 8192

NoThread == 0
NULL == "<null>"

Callers == 1..NumCallers

\* std::thread::hardware_concurrency() of the host, and llm_init's clamp of it
HwChoices == 0..MaxHw
NumThreads(hw) ==
    LET a == IF hw < MinPoolThreads THEN MinPoolThreads ELSE hw
    IN  IF a > MaxPoolThreads THEN MaxPoolThreads ELSE a

MaxWorkers == NumThreads(MaxHw)
WorkerIds == (NumCallers + 1)..(NumCallers + MaxWorkers)
Threads == Callers \cup WorkerIds

\* inputs of the API calls
Paths == {"model.gguf", "missing.gguf"}
Readable == {"model.gguf"}
CtxChoices == {-1, 0, 512}
ThreadChoices == {0, 2}
Prompts == {NULL, "", "hi"}
BufSizes == {0, 1, 100, 156}

VARIABLES
    g_state_mutex,            \* owner of g_state_mutex, NoThread when free
    g_model_loaded, g_model_path, g_n_ctx, g_n_threads,
    g_last_error,
    g_thread_pool,            \* 0 is nullptr, else the pool object's number
    stop, tasks, queue_mutex, \* the fields of the ThreadPool object
    nworkers,                 \* workers.size() of the pool object
    g_active_inference_count,
    request_id,               \* the function-static counter of llm_generate_async
    requests,                 \* the InferenceRequest objects allocated so far
    pc, loc, ret,             \* per thread: position, locals, last return value
    crashed,                  \* the process died (null / dangling dereference)
    pools,                    \* number of ThreadPool objects constructed
    calls,                    \* number of API calls started since Init
    enqOrder, deqOrder, startOrder, \* history: requests in queue/dequeue/start order
    lastLoad                  \* history: parameters of the load in effect

vars == <<g_state_mutex, g_model_loaded, g_model_path, g_n_ctx, g_n_threads,
          g_last_error, g_thread_pool, stop, tasks, queue_mutex, nworkers,
          g_active_inference_count, request_id, requests, pc, loc, ret,
          crashed, pools, calls, enqOrder, deqOrder, startOrder, lastLoad>>

registry == <<g_model_loaded, g_model_path, g_n_ctx, g_n_threads>>
poolvars == <<g_thread_pool, stop, tasks, queue_mutex, nworkers, pools>>
history == <<enqOrder, deqOrder, startOrder, lastLoad>>

\* locals of a thread outside any call
L0 == [op |-> "none", msg |-> "", prompt |-> "", cb |-> FALSE, size |-> 0,
       req |-> 0, tmp |-> 0, lp |-> 0, result |-> 0]
R0 == [op |-> "none", val |-> 0, str |-> "", written |-> 0]

NoLoad == [n_ctx |-> 0, n_threads |-> 0, path |-> ""]

PoolWorkers == IF g_thread_pool = 0 THEN {} ELSE (NumCallers + 1)..(NumCallers + nworkers)

\* ThreadPool::ThreadPool(num_threads): every worker starts at the top of its loop
ThreadPoolCtor(n) ==
    [w \in WorkerIds |-> IF w <= NumCallers + n THEN "w_wait" ELSE "none"]

Init ==
    /\ g_state_mutex = NoThread
    /\ g_model_loaded = FALSE
    /\ g_model_path = ""
    /\ g_n_ctx = DefaultCtx
    /\ g_n_threads = DefaultThreads
    /\ g_last_error = ""
    /\ g_thread_pool = 0
    /\ stop = FALSE
    /\ tasks = <<>>
    /\ queue_mutex = NoThread
    /\ nworkers = 0
    /\ g_active_inference_count = 0
    /\ request_id = 0
    /\ requests = <<>>
    /\ pc = [t \in Threads |-> IF t \in Callers THEN "idle" ELSE "none"]
    /\ loc = [t \in Threads |-> L0]
    /\ ret = [t \in Callers |-> R0]
    /\ crashed = FALSE
    /\ pools = 0
    /\ calls = 0
    /\ enqOrder = <<>>
    /\ deqOrder = <<>>
    /\ startOrder = <<>>
    /\ lastLoad = NoLoad

\* a caller may start a new API call
CanCall(t) == t \in Callers /\ pc[t] = "idle" /\ calls < MaxCalls

\* the call of thread t returns v (s: the error message it set, w: the bytes it
\* wrote to the caller's buffer): a caller is idle again, a worker is back in the
\* task closure with llm_generate's result
Returned(t, op, v, s, w) ==
    IF t \in Callers
    THEN /\ pc' = [pc EXCEPT ![t] = "idle"]
         /\ loc' = [loc EXCEPT ![t] = L0]
         /\ ret' = [ret EXCEPT ![t] = [op |-> op, val |-> v, str |-> s, written |-> w]]
    ELSE /\ pc' = [pc EXCEPT ![t] = "task_after"]
         /\ loc' = [loc EXCEPT ![t].op = "task", ![t].result = v]
         /\ UNCHANGED ret

\* ------------------------------------------------------------ llm_init
llm_init(t) ==
    /\ CanCall(t)
    /\ g_state_mutex = NoThread
    /\ calls' = calls + 1
    /\ \E hw \in HwChoices :
         IF g_thread_pool = 0
         THEN /\ pools' = pools + 1
              /\ g_thread_pool' = pools + 1
              /\ nworkers' = NumThreads(hw)
              /\ stop' = FALSE
              /\ tasks' = <<>>
              /\ pc' = [w \in Threads |->
                          IF w \in WorkerIds THEN ThreadPoolCtor(NumThreads(hw))[w]
                          ELSE pc[w]]
         ELSE UNCHANGED <<pools, g_thread_pool, nworkers, stop, tasks, pc>>
    /\ ret' = [ret EXCEPT ![t] = [R0 EXCEPT !.op = "init"]]
    /\ UNCHANGED <<g_state_mutex, registry, g_last_error, queue_mutex,
                   g_active_inference_count, request_id, requests, loc, crashed,
                   history>>

\* ------------------------------------------------------------ set_error
\* set_error called by a thread that does not hold g_state_mutex: lock, assign,
\* unlock, and the caller returns -1
SetError(t) ==
    /\ pc[t] = "seterr"
    /\ g_state_mutex = NoThread
    /\ g_last_error' = loc[t].msg
    /\ Returned(t, loc[t].op, -1, loc[t].msg, 0)
    /\ UNCHANGED <<g_state_mutex, registry, poolvars, g_active_inference_count,
                   request_id, requests, crashed, calls, history>>

\* set_error called by a thread that already holds g_state_mutex (llm_load_model's
\* and llm_generate's failure paths): locking a std::mutex the thread owns is
\* undefined.  The outcomes: the thread blocks on itself for ever ("hang"), or the
\* lock goes through, the message is stored and the two unlocks leave the mutex
\* free ("proceed").
RelockOutcomes == {"hang", "proceed"}

SetErrorRelock(t) ==
    /\ pc[t] = "relock"
    /\ g_state_mutex = t
    /\ \E outcome \in RelockOutcomes :
         IF outcome = "hang"
         THEN /\ pc' = [pc EXCEPT ![t] = "hung"]
              /\ UNCHANGED <<g_state_mutex, g_last_error, loc, ret>>
         ELSE /\ g_last_error' = loc[t].msg
              /\ g_state_mutex' = NoThread
              /\ Returned(t, loc[t].op, -1, loc[t].msg, 0)
    /\ UNCHANGED <<registry, poolvars, g_active_inference_count, request_id,
                   requests, crashed, calls, history>>

\* -------------------------------------------------------- llm_get_last_error
llm_get_last_error(t) ==
    /\ CanCall(t)
    /\ g_state_mutex = NoThread
    /\ calls' = calls + 1
    /\ ret' = [ret EXCEPT ![t] = [R0 EXCEPT !.op = "get_last_error", !.str = g_last_error]]
    /\ UNCHANGED <<g_state_mutex, registry, g_last_error, poolvars,
                   g_active_inference_count, request_id, requests, pc, loc, crashed,
                   history>>

\* ------------------------------------------------------------ llm_load_model
\* faulty variant: the boundary taken as >= 0
ClampCtxNonNeg(n_ctx) == IF n_ctx >= 0 THEN n_ctx ELSE DefaultCtx
ClampCtx(n_ctx) == IF n_ctx > 0 THEN n_ctx ELSE DefaultCtx
ClampThreads(n_threads) == IF n_threads > 0 THEN n_threads ELSE DefaultThreads

\* fopen(path, "rb") succeeds
FileOpens(path) == path \in Readable

\* the message of a failing load, "" when the load succeeds
LoadFailure(params_null, path) ==
    IF params_null \/ path = NULL THEN "Invalid parameters"
    ELSE IF ~FileOpens(path) THEN "Model file not found: " \o path
    ELSE ""

llm_load_model(t) ==
    /\ CanCall(t)
    /\ g_state_mutex = NoThread
    /\ calls' = calls + 1
    /\ \E params_null \in BOOLEAN, path \in Paths \cup {NULL},
          n_ctx \in CtxChoices, n_threads \in ThreadChoices :
         IF LoadFailure(params_null, path) # ""
         THEN /\ g_state_mutex' = t
              /\ pc' = [pc EXCEPT ![t] = "relock"]
              /\ loc' = [loc EXCEPT ![t] = [L0 EXCEPT !.op = "load_model",
                                              !.msg = LoadFailure(params_null, path)]]
              /\ UNCHANGED <<registry, ret, lastLoad>>
         ELSE /\ g_model_path' = path
              /\ g_n_ctx' = ClampCtx(n_ctx)
              /\ g_n_threads' = ClampThreads(n_threads)
              /\ g_model_loaded' = TRUE
              /\ lastLoad' = [n_ctx |-> n_ctx, n_threads |-> n_threads, path |-> path]
              /\ ret' = [ret EXCEPT ![t] = [R0 EXCEPT !.op = "load_model", !.val = 0]]
              /\ UNCHANGED <<g_state_mutex, pc, loc>>
    /\ UNCHANGED <<g_last_error, poolvars, g_active_inference_count, request_id,
                   requests, crashed, enqOrder, deqOrder, startOrder>>

\* ------------------------------------------------------- llm_is_model_loaded
IsModelLoaded == IF g_model_loaded THEN 1 ELSE 0

llm_is_model_loaded(t) ==
    /\ CanCall(t)
    /\ g_state_mutex = NoThread
    /\ calls' = calls + 1
    /\ ret' = [ret EXCEPT ![t] = [R0 EXCEPT !.op = "is_model_loaded", !.val = IsModelLoaded]]
    /\ UNCHANGED <<g_state_mutex, registry, g_last_error, poolvars,
                   g_active_inference_count, request_id, requests, pc, loc, crashed,
                   history>>

\* ---------------------------------------------------------- llm_unload_model
\* the model state as one record, and what llm_unload_model makes of it
ModelState == [loaded |-> g_model_loaded, path |-> g_model_path, n_ctx |-> g_n_ctx,
               n_threads |-> g_n_threads, last_error |-> g_last_error]
UnloadModel(s) == [s EXCEPT !.loaded = FALSE, !.path = ""]

llm_unload_model(t) ==
    /\ CanCall(t)
    /\ g_state_mutex = NoThread
    /\ calls' = calls + 1
    /\ g_model_loaded' = FALSE
    /\ g_model_path' = ""
    /\ lastLoad' = NoLoad
    /\ ret' = [ret EXCEPT ![t] = [R0 EXCEPT !.op = "unload_model"]]
    /\ UNCHANGED <<g_state_mutex, g_n_ctx, g_n_threads, g_last_error, poolvars,
                   g_active_inference_count, request_id, requests, pc, loc, crashed,
                   enqOrder, deqOrder, startOrder>>

\* ------------------------------------------------------ llm_get_context_size
ContextSize == IF g_model_loaded THEN g_n_ctx ELSE 0

llm_get_context_size(t) ==
    /\ CanCall(t)
    /\ g_state_mutex = NoThread
    /\ calls' = calls + 1
    /\ ret' = [ret EXCEPT ![t] = [R0 EXCEPT !.op = "get_context_size", !.val = ContextSize]]
    /\ UNCHANGED <<g_state_mutex, registry, g_last_error, poolvars,
                   g_active_inference_count, request_id, requests, pc, loc, crashed,
                   history>>

\* -------------------------------------------- llm_get_active_inference_count
llm_get_active_inference_count(t) ==
    /\ CanCall(t)
    /\ calls' = calls + 1
    /\ ret' = [ret EXCEPT ![t] = [R0 EXCEPT !.op = "get_active_inference_count",
                                    !.val = g_active_inference_count]]
    /\ UNCHANGED <<g_state_mutex, registry, g_last_error, poolvars,
                   g_active_inference_count, request_id, requests, pc, loc, crashed,
                   history>>

\* ------------------------------------------------------- llm_get_system_info
\* the "Threads: " and "Active: " values of the diagnostic string; g_n_threads is
\* read without g_state_mutex
llm_get_system_info(t) ==
    /\ CanCall(t)
    /\ calls' = calls + 1
    /\ ret' = [ret EXCEPT ![t] = [R0 EXCEPT !.op = "get_system_info",
                                    !.val = g_n_threads,
                                    !.written = g_active_inference_count]]
    /\ UNCHANGED <<g_state_mutex, registry, g_last_error, poolvars,
                   g_active_inference_count, request_id, requests, pc, loc, crashed,
                   history>>

\* --------------------------------------------------------------- llm_generate
InvalidGenArgs(prompt, output_buffer, buffer_size) ==
    prompt = NULL \/ ~output_buffer \/ buffer_size <= 0

\* faulty variant: the whole buffer taken for the text, no room for the terminator
GenLenNoTerminator(buffer_size) ==
    IF PlaceholderLen >= buffer_size THEN buffer_size ELSE PlaceholderLen

\* the length llm_generate copies into a buffer of buffer_size bytes
GenLen(buffer_size) ==
    IF PlaceholderLen >= buffer_size THEN buffer_size - 1 ELSE PlaceholderLen

\* entry of llm_generate: the argument check
GenEnter(t, prompt, output_buffer, buffer_size) ==
    IF InvalidGenArgs(prompt, output_buffer, buffer_size)
    THEN /\ pc' = [pc EXCEPT ![t] = "seterr"]
         /\ loc' = [loc EXCEPT ![t].op = "generate", ![t].msg = "Invalid parameters"]
    ELSE /\ pc' = [pc EXCEPT ![t] = "gen_lock"]
         /\ loc' = [loc EXCEPT ![t].op = "generate", ![t].prompt = prompt,
                               ![t].size = buffer_size]

\* a caller calls llm_generate
llm_generate(t) ==
    /\ CanCall(t)
    /\ calls' = calls + 1
    /\ \E prompt \in Prompts, output_buffer \in BOOLEAN, buffer_size \in BufSizes :
         GenEnter(t, prompt, output_buffer, buffer_size)
    /\ UNCHANGED <<g_state_mutex, registry, g_last_error, poolvars,
                   g_active_inference_count, request_id, requests, ret, crashed,
                   history>>

\* the block { lock_guard; if (!g_model_loaded) { set_error(...); return -1; } }
GenCheck(t) ==
    /\ pc[t] = "gen_lock"
    /\ g_state_mutex = NoThread
    /\ IF g_model_loaded
       THEN /\ pc' = [pc EXCEPT ![t] = "gen_inc"]
            /\ UNCHANGED <<g_state_mutex, loc>>
       ELSE /\ g_state_mutex' = t
            /\ pc' = [pc EXCEPT ![t] = "relock"]
            /\ loc' = [loc EXCEPT ![t].msg = "No model loaded"]
    /\ UNCHANGED <<registry, g_last_error, poolvars, g_active_inference_count,
                   request_id, requests, ret, crashed, calls, history>>

\* g_active_inference_count++
GenInc(t) ==
    /\ pc[t] = "gen_inc"
    /\ g_active_inference_count' = g_active_inference_count + 1
    /\ pc' = [pc EXCEPT ![t] = "gen_dec"]
    /\ UNCHANGED <<g_state_mutex, registry, g_last_error, poolvars, request_id,
                   requests, loc, ret, crashed, calls, history>>

\* faulty variant: a return that skips the decrement
GenFinishNoDec(t) ==
    /\ pc[t] = "gen_dec"
    /\ Returned(t, "generate", GenLen(loc[t].size), "", GenLen(loc[t].size) + 1)
    /\ UNCHANGED <<g_state_mutex, registry, g_last_error, poolvars,
                   g_active_inference_count, request_id, requests, crashed, calls,
                   history>>

\* the copy of the text into the buffer, g_active_inference_count--, return len
GenFinish(t) ==
    /\ pc[t] = "gen_dec"
    /\ g_active_inference_count' = g_active_inference_count - 1
    /\ Returned(t, "generate", GenLen(loc[t].size), "", GenLen(loc[t].size) + 1)
    /\ UNCHANGED <<g_state_mutex, registry, g_last_error, poolvars, request_id,
                   requests, crashed, calls, history>>

\* --------------------------------------------------------- llm_generate_async
NewRequest(id, prompt, callback) ==
    [id |-> id, prompt |-> IF prompt = NULL THEN "" ELSE prompt,
     callback |-> callback, completed |-> FALSE, success |-> FALSE,
     error |-> "", hasResult |-> FALSE,
     ncompleted |-> 0, cbCalls |-> 0, pool |-> 0, deqStop |-> FALSE]

\* requests being created by callers that have passed the pool check
Pending == Cardinality({c \in Callers : pc[c] \in {"async_read", "async_write"}})

\* faulty variant: the id is taken before the pool check
AsyncCallCountsFirst(t, prompts, callbacks) ==
    /\ CanCall(t)
    /\ Len(requests) + Pending < MaxReq
    /\ calls' = calls + 1
    /\ \E prompt \in prompts, callback \in callbacks :
         IF g_thread_pool = 0
         THEN /\ pc' = [pc EXCEPT ![t] = "seterr"]
              /\ request_id' = request_id + 1
              /\ loc' = [loc EXCEPT ![t] = [L0 EXCEPT !.op = "generate_async",
                                              !.msg = "Thread pool not initialized"]]
         ELSE /\ pc' = [pc EXCEPT ![t] = "async_read"]
              /\ UNCHANGED request_id
              /\ loc' = [loc EXCEPT ![t] = [L0 EXCEPT !.op = "generate_async",
                                              !.prompt = prompt, !.cb = callback,
                                              !.lp = g_thread_pool]]
    /\ UNCHANGED <<g_state_mutex, registry, g_last_error, poolvars,
                   g_active_inference_count, requests, ret, crashed, history>>

\* the call, with its arguments among the given ones, and its check
\* `if (!g_thread_pool)`, read without any lock
AsyncCall(t, prompts, callbacks) ==
    /\ CanCall(t)
    /\ Len(requests) + Pending < MaxReq
    /\ calls' = calls + 1
    /\ \E prompt \in prompts, callback \in callbacks :
         IF g_thread_pool = 0
         THEN /\ pc' = [pc EXCEPT ![t] = "seterr"]
              /\ loc' = [loc EXCEPT ![t] = [L0 EXCEPT !.op = "generate_async",
                                              !.msg = "Thread pool not initialized"]]
         ELSE /\ pc' = [pc EXCEPT ![t] = "async_read"]
              /\ loc' = [loc EXCEPT ![t] = [L0 EXCEPT !.op = "generate_async",
                                              !.prompt = prompt, !.cb = callback,
                                              !.lp = g_thread_pool]]
    /\ UNCHANGED <<g_state_mutex, registry, g_last_error, poolvars,
                   g_active_inference_count, request_id, requests, ret, crashed,
                   history>>

llm_generate_async(t) == AsyncCall(t, Prompts, BOOLEAN)

\* ++request_id on a plain static int32_t: the load ...
AsyncReadId(t) ==
    /\ pc[t] = "async_read"
    /\ loc' = [loc EXCEPT ![t].tmp = request_id]
    /\ pc' = [pc EXCEPT ![t] = "async_write"]
    /\ UNCHANGED <<g_state_mutex, registry, g_last_error, poolvars,
                   g_active_inference_count, request_id, requests, ret, crashed,
                   calls, history>>

\* ... and the store, then `new InferenceRequest()` and its fields
AsyncWriteId(t) ==
    /\ pc[t] = "async_write"
    /\ request_id' = loc[t].tmp + 1
    /\ requests' = Append(requests, NewRequest(loc[t].tmp + 1, loc[t].prompt, loc[t].cb))
    /\ loc' = [loc EXCEPT ![t].tmp = loc[t].tmp + 1, ![t].req = Len(requests) + 1]
    /\ pc' = [pc EXCEPT ![t] = "async_enq"]
    /\ UNCHANGED <<g_state_mutex, registry, g_last_error, poolvars,
                   g_active_inference_count, ret, crashed, calls, history>>

\* faulty variant: the task put at the front of the queue
QueuePushFront(q, r) == <<r>> \o q

\* ThreadPool::enqueue: tasks.emplace under queue_mutex
QueuePush(q, r) == Append(q, r)

\* g_thread_pool->enqueue(...).  When llm_deinit has destroyed the pool seen by the
\* null check, the call goes through a null or dangling pointer, which is
\* undefined: the process dies ("crash"), the task lands in freed memory ("lost"),
\* or, a new pool being there, the reloaded pointer is that pool ("live").
EnqueueOutcomes(t) ==
    IF g_thread_pool = loc[t].lp THEN {"live"}
    ELSE {"crash", "lost"} \cup (IF g_thread_pool # 0 THEN {"live"} ELSE {})

AsyncEnqueue(t) ==
    /\ pc[t] = "async_enq"
    /\ \E outcome \in EnqueueOutcomes(t) :
         IF outcome = "live"
         THEN /\ queue_mutex = NoThread
              /\ tasks' = QueuePush(tasks, loc[t].req)
              /\ requests' = [requests EXCEPT ![loc[t].req].pool = g_thread_pool]
              /\ enqOrder' = Append(enqOrder, loc[t].req)
              /\ Returned(t, "generate_async", loc[t].tmp, "", 0)
              /\ UNCHANGED crashed
         ELSE IF outcome = "lost"
         THEN /\ Returned(t, "generate_async", loc[t].tmp, "", 0)
              /\ UNCHANGED <<tasks, requests, enqOrder, crashed>>
         ELSE /\ crashed' = TRUE
              /\ pc' = [x \in Threads |-> "dead"]
              /\ UNCHANGED <<tasks, requests, enqOrder, loc, ret>>
    /\ UNCHANGED <<g_state_mutex, registry, g_last_error, g_thread_pool, stop,
                   queue_mutex, nworkers, pools, g_active_inference_count,
                   request_id, calls, deqOrder, startOrder, lastLoad>>

\* ---------------------------------------------------------- the worker loop
\* the predicate of condition.wait and the exit test that follows it
WorkerWaitPred == stop \/ tasks # <<>>
\* faulty variant: the worker leaves as soon as stop is set
ExitOnStop == stop
WorkerShouldExit == stop /\ tasks = <<>>
QueueFront(q) == Head(q)
QueuePop(q) == Tail(q)

\* faulty variant: task() run inside the scope of the worker's unique_lock
DequeueKeepsLock(w) == w
\* the owner of queue_mutex once the scope of the worker's unique_lock has ended,
\* which is before task() runs
DequeueUnlock(w) == NoThread

\* task = std::move(tasks.front()); tasks.pop(); under queue_mutex
WorkerDequeue(w) ==
    /\ pc[w] = "w_wait"
    /\ queue_mutex = NoThread
    /\ WorkerWaitPred /\ ~WorkerShouldExit
    /\ tasks' = QueuePop(tasks)
    /\ loc' = [loc EXCEPT ![w] = [L0 EXCEPT !.op = "task", !.req = QueueFront(tasks)]]
    /\ requests' = [requests EXCEPT ![QueueFront(tasks)].deqStop = stop]
    /\ deqOrder' = Append(deqOrder, QueueFront(tasks))
    /\ queue_mutex' = DequeueUnlock(w)
    /\ pc' = [pc EXCEPT ![w] = "w_run"]
    /\ UNCHANGED <<g_state_mutex, registry, g_last_error, g_thread_pool, stop,
                   nworkers, pools, g_active_inference_count, request_id, ret,
                   crashed, calls, enqOrder, startOrder, lastLoad>>

\* if (stop && tasks.empty()) return;
WorkerExit(w) ==
    /\ pc[w] = "w_wait"
    /\ queue_mutex = NoThread
    /\ WorkerWaitPred /\ WorkerShouldExit
    /\ pc' = [pc EXCEPT ![w] = "terminated"]
    /\ UNCHANGED <<g_state_mutex, registry, g_last_error, poolvars,
                   g_active_inference_count, request_id, requests, loc, ret, crashed,
                   calls, history>>

\* task(): the closure starts and calls llm_generate(request->prompt.c_str(),
\* &request->params, buffer, sizeof(buffer))
TaskStart(w) ==
    /\ pc[w] = "w_run"
    /\ GenEnter(w, requests[loc[w].req].prompt, TRUE, TaskBufferSize)
    /\ startOrder' = Append(startOrder, loc[w].req)
    /\ UNCHANGED <<g_state_mutex, registry, g_last_error, poolvars,
                   g_active_inference_count, request_id, requests, ret, crashed,
                   calls, enqOrder, deqOrder, lastLoad>>

\* if (result > 0) { result, success, callback } else { success = false; ... }
TaskAfter(w) ==
    /\ pc[w] = "task_after"
    /\ IF loc[w].result > 0
       THEN /\ requests' = [requests EXCEPT
                 ![loc[w].req].hasResult = TRUE,
                 ![loc[w].req].success = TRUE,
                 ![loc[w].req].cbCalls = @ + (IF requests[loc[w].req].callback THEN 1 ELSE 0)]
            /\ pc' = [pc EXCEPT ![w] = "task_complete"]
       ELSE /\ requests' = [requests EXCEPT ![loc[w].req].success = FALSE]
            /\ pc' = [pc EXCEPT ![w] = "task_geterr"]
    /\ UNCHANGED <<g_state_mutex, registry, g_last_error, poolvars,
                   g_active_inference_count, request_id, loc, ret, crashed, calls,
                   history>>

\* llm_get_last_error() inside the task: lock, take c_str(), unlock
TaskGetError(w) ==
    /\ pc[w] = "task_geterr"
    /\ g_state_mutex = NoThread
    /\ pc' = [pc EXCEPT ![w] = "task_copyerr"]
    /\ UNCHANGED <<g_state_mutex, registry, g_last_error, poolvars,
                   g_active_inference_count, request_id, requests, loc, ret, crashed,
                   calls, history>>

\* request->error = <the returned pointer>: the string is read after the unlock
TaskCopyError(w) ==
    /\ pc[w] = "task_copyerr"
    /\ requests' = [requests EXCEPT ![loc[w].req].error = g_last_error]
    /\ pc' = [pc EXCEPT ![w] = "task_complete"]
    /\ UNCHANGED <<g_state_mutex, registry, g_last_error, poolvars,
                   g_active_inference_count, request_id, loc, ret, crashed, calls,
                   history>>

\* faulty variant: the closure ends without marking the request
TaskCompleteNoMark(w) ==
    /\ pc[w] = "task_complete"
    /\ pc' = [pc EXCEPT ![w] = "w_wait"]
    /\ loc' = [loc EXCEPT ![w] = L0]
    /\ UNCHANGED <<g_state_mutex, registry, g_last_error, poolvars,
                   g_active_inference_count, request_id, requests, ret, crashed,
                   calls, history>>

\* request->completed = true; and the worker is back at the top of its loop
TaskComplete(w) ==
    /\ pc[w] = "task_complete"
    /\ requests' = [requests EXCEPT ![loc[w].req].completed = TRUE,
                                    ![loc[w].req].ncompleted = @ + 1]
    /\ pc' = [pc EXCEPT ![w] = "w_wait"]
    /\ loc' = [loc EXCEPT ![w] = L0]
    /\ UNCHANGED <<g_state_mutex, registry, g_last_error, poolvars,
                   g_active_inference_count, request_id, ret, crashed, calls,
                   history>>

\* ------------------------------------------------------------- llm_deinit
\* lock, unload, and `delete g_thread_pool` up to the destructor's own lock
llm_deinit(t) ==
    /\ CanCall(t)
    /\ g_state_mutex = NoThread
    /\ calls' = calls + 1
    /\ g_model_loaded' = FALSE
    /\ lastLoad' = NoLoad
    /\ IF g_thread_pool = 0
       THEN /\ ret' = [ret EXCEPT ![t] = [R0 EXCEPT !.op = "deinit"]]
            /\ UNCHANGED <<g_state_mutex, pc, loc>>
       ELSE /\ g_state_mutex' = t
            /\ pc' = [pc EXCEPT ![t] = "dtor"]
            /\ loc' = [loc EXCEPT ![t] = [L0 EXCEPT !.op = "deinit"]]
            /\ UNCHANGED ret
    /\ UNCHANGED <<g_model_path, g_n_ctx, g_n_threads, g_last_error, poolvars,
                   g_active_inference_count, request_id, requests, crashed,
                   enqOrder, deqOrder, startOrder>>

\* ~ThreadPool: { lock; stop = true; } condition.notify_all();
DtorStop(t) ==
    /\ pc[t] = "dtor"
    /\ queue_mutex = NoThread
    /\ stop' = TRUE
    /\ pc' = [pc EXCEPT ![t] = "join"]
    /\ UNCHANGED <<g_state_mutex, registry, g_last_error, g_thread_pool, tasks,
                   queue_mutex, nworkers, pools, g_active_inference_count,
                   request_id, requests, loc, ret, crashed, calls, history>>

AllWorkersTerminated == \A w \in PoolWorkers : pc[w] = "terminated"

\* ~ThreadPool: every worker.join() has returned; the members are destroyed, then
\* llm_deinit stores nullptr and unlocks
DtorJoin(t) ==
    /\ pc[t] = "join"
    /\ AllWorkersTerminated
    /\ tasks' = <<>>
    /\ stop' = FALSE
    /\ nworkers' = 0
    /\ g_thread_pool' = 0
    /\ g_state_mutex' = NoThread
    /\ pc' = [x \in Threads |-> IF x = t THEN "idle"
                                ELSE IF x \in WorkerIds THEN "none" ELSE pc[x]]
    /\ loc' = [loc EXCEPT ![t] = L0]
    /\ ret' = [ret EXCEPT ![t] = [R0 EXCEPT !.op = "deinit"]]
    /\ UNCHANGED <<registry, g_last_error, queue_mutex, pools,
                   g_active_inference_count, request_id, requests, crashed, calls,
                   history>>

\* ------------------------------------------------------------ specification
Next ==
    \/ \E t \in Callers : llm_init(t)
    \/ \E t \in Callers : llm_deinit(t)
    \/ \E t \in Callers : DtorStop(t)
    \/ \E t \in Callers : DtorJoin(t)
    \/ \E t \in Callers : llm_get_last_error(t)
    \/ \E t \in Callers : llm_load_model(t)
    \/ \E t \in Callers : llm_is_model_loaded(t)
    \/ \E t \in Callers : llm_unload_model(t)
    \/ \E t \in Callers : llm_get_context_size(t)
    \/ \E t \in Callers : llm_get_active_inference_count(t)
    \/ \E t \in Callers : llm_get_system_info(t)
    \/ \E t \in Callers : llm_generate(t)
    \/ \E t \in Callers : llm_generate_async(t)
    \/ \E t \in Callers : AsyncReadId(t)
    \/ \E t \in Callers : AsyncWriteId(t)
    \/ \E t \in Callers : AsyncEnqueue(t)
    \/ \E w \in WorkerIds : WorkerDequeue(w)
    \/ \E w \in WorkerIds : WorkerExit(w)
    \/ \E w \in WorkerIds : TaskStart(w)
    \/ \E w \in WorkerIds : TaskAfter(w)
    \/ \E w \in WorkerIds : TaskGetError(w)
    \/ \E w \in WorkerIds : TaskCopyError(w)
    \/ \E w \in WorkerIds : TaskComplete(w)
    \/ \E t \in Threads : SetError(t)
    \/ \E t \in Threads : SetErrorRelock(t)
    \/ \E t \in Threads : GenCheck(t)
    \/ \E t \in Threads : GenInc(t)
    \/ \E t \in Threads : GenFinish(t)

Spec == Init /\ [][Next]_vars

\* The interleavings in which llm_deinit is never called.
NextNoDeinit ==
    \/ \E t \in Callers : llm_init(t)
    \/ \E t \in Callers : llm_get_last_error(t)
    \/ \E t \in Callers : llm_load_model(t)
    \/ \E t \in Callers : llm_is_model_loaded(t)
    \/ \E t \in Callers : llm_unload_model(t)
    \/ \E t \in Callers : llm_generate(t)
    \/ \E t \in Callers : llm_generate_async(t)
    \/ \E t \in Callers : AsyncReadId(t)
    \/ \E t \in Callers : AsyncWriteId(t)
    \/ \E t \in Callers : AsyncEnqueue(t)
    \/ \E w \in WorkerIds : WorkerDequeue(w)
    \/ \E w \in WorkerIds : TaskStart(w)
    \/ \E w \in WorkerIds : TaskAfter(w)
    \/ \E w \in WorkerIds : TaskGetError(w)
    \/ \E w \in WorkerIds : TaskCopyError(w)
    \/ \E w \in WorkerIds : TaskComplete(w)
    \/ \E t \in Threads : SetError(t)
    \/ \E t \in Threads : SetErrorRelock(t)
    \/ \E t \in Threads : GenCheck(t)
    \/ \E t \in Threads : GenInc(t)
    \/ \E t \in Threads : GenFinish(t)

SpecNoDeinit == Init /\ [][NextNoDeinit]_vars

\* One application thread makes every call; the workers run beside it.
Submitter == CHOOSE t \in Callers : \A u \in Callers : t <= u

NextSingle ==
    \/ llm_init(Submitter)
    \/ llm_deinit(Submitter)
    \/ DtorStop(Submitter)
    \/ DtorJoin(Submitter)
    \/ llm_get_last_error(Submitter)
    \/ llm_load_model(Submitter)
    \/ llm_is_model_loaded(Submitter)
    \/ llm_unload_model(Submitter)
    \/ llm_get_context_size(Submitter)
    \/ llm_get_active_inference_count(Submitter)
    \/ llm_get_system_info(Submitter)
    \/ llm_generate(Submitter)
    \/ llm_generate_async(Submitter)
    \/ AsyncReadId(Submitter)
    \/ AsyncWriteId(Submitter)
    \/ AsyncEnqueue(Submitter)
    \/ \E w \in WorkerIds : WorkerDequeue(w)
    \/ \E w \in WorkerIds : WorkerExit(w)
    \/ \E w \in WorkerIds : TaskStart(w)
    \/ \E w \in WorkerIds : TaskAfter(w)
    \/ \E w \in WorkerIds : TaskGetError(w)
    \/ \E w \in WorkerIds : TaskCopyError(w)
    \/ \E w \in WorkerIds : TaskComplete(w)
    \/ \E t \in Threads : SetError(t)
    \/ \E t \in Threads : SetErrorRelock(t)
    \/ \E t \in Threads : GenCheck(t)
    \/ \E t \in Threads : GenInc(t)
    \/ \E t \in Threads : GenFinish(t)

SpecSingle == Init /\ [][NextSingle]_vars

\* A pool under load: the pool exists (the n >= 2 workers llm_init gives it, or a
\* single worker, the serialized configuration), a model is loaded and stays
\* loaded, llm_deinit is not called, and one thread submits the async requests,
\* each with a prompt and a callback.
PoolPrompts == {"hi"}
PoolCallbacks == {TRUE}
PoolSizes == 1..MaxWorkers

InitPool ==
    /\ g_state_mutex = NoThread
    /\ g_model_loaded = TRUE
    /\ g_model_path = "model.gguf"
    /\ g_n_ctx = DefaultCtx
    /\ g_n_threads = DefaultThreads
    /\ g_last_error = ""
    /\ g_thread_pool = 1
    /\ stop = FALSE
    /\ tasks = <<>>
    /\ queue_mutex = NoThread
    /\ nworkers \in PoolSizes
    /\ g_active_inference_count = 0
    /\ request_id = 0
    /\ requests = <<>>
    /\ pc = [t \in Threads |-> IF t \in Callers THEN "idle" ELSE ThreadPoolCtor(nworkers)[t]]
    /\ loc = [t \in Threads |-> L0]
    /\ ret = [t \in Callers |-> R0]
    /\ crashed = FALSE
    /\ pools = 1
    /\ calls = 0
    /\ enqOrder = <<>>
    /\ deqOrder = <<>>
    /\ startOrder = <<>>
    /\ lastLoad = [n_ctx |-> 0, n_threads |-> 0, path |-> "model.gguf"]

NextPool ==
    \/ AsyncCall(Submitter, PoolPrompts, PoolCallbacks)
    \/ AsyncReadId(Submitter)
    \/ AsyncWriteId(Submitter)
    \/ AsyncEnqueue(Submitter)
    \/ llm_get_active_inference_count(Submitter)
    \/ \E w \in WorkerIds : WorkerDequeue(w)
    \/ \E w \in WorkerIds : TaskStart(w)
    \/ \E w \in WorkerIds : GenCheck(w)
    \/ \E w \in WorkerIds : GenInc(w)
    \/ \E w \in WorkerIds : GenFinish(w)
    \/ \E w \in WorkerIds : TaskAfter(w)
    \/ \E w \in WorkerIds : TaskComplete(w)

\* a thread that can run is eventually run: a call in progress goes on, a worker
\* goes round its loop (no fairness on starting a new call)
FairPool ==
    /\ WF_vars(AsyncReadId(Submitter) \/ AsyncWriteId(Submitter) \/ AsyncEnqueue(Submitter))
    /\ \A w \in WorkerIds :
         WF_vars(WorkerDequeue(w) \/ TaskStart(w) \/ GenCheck(w) \/ GenInc(w)
                 \/ GenFinish(w) \/ TaskAfter(w) \/ TaskComplete(w))

SpecPool == InitPool /\ [][NextPool]_vars /\ FairPool

\* ------------------------------------------------------------ waiting
\* the threads a thread is waiting for: the owner of the mutex it is about to
\* lock, itself when it relocks a mutex it owns, the unfinished workers in join
StateLockPcs == {"seterr", "gen_lock", "task_geterr"}
QueueLockPcs == {"dtor", "async_enq", "w_wait"}

WaitFor(t) ==
    IF pc[t] = "hung" THEN {t}
    ELSE IF pc[t] \in StateLockPcs THEN {g_state_mutex} \ {NoThread}
    ELSE IF pc[t] = "join" THEN {w \in PoolWorkers : pc[w] # "terminated"}
    ELSE IF pc[t] \in QueueLockPcs THEN {queue_mutex} \ {NoThread}
    ELSE {}

\* every thread of S waits for a thread of S: none of them ever moves again
DeadlockedSet(S) == S # {} /\ \A t \in S : WaitFor(t) \cap S # {}
Deadlocked == \E S \in SUBSET Threads : DeadlockedSet(S)
Stuck(t) == \E S \in SUBSET Threads : t \in S /\ DeadlockedSet(S)

\* ------------------------------------------------------------ claims

\* C1: under any interleaving of llm_init, llm_load_model, llm_unload_model,
\* llm_is_model_loaded, llm_generate, llm_generate_async, llm_get_last_error and
\* the workers (SpecNoDeinit), no state is a deadlock: no set of threads waits
\* for ever on g_state_mutex or queue_mutex.
C1_NoDeadlock == ~Deadlocked

\* C2: an llm_deinit called by the one thread that made every earlier call, so
\* that each request submitted before it is queued, running or completed when it
\* starts, is never stuck: it can always still return with every worker joined.
OnlyCaller(t) == \A u \in Callers \ {t} : pc[u] = "idle" /\ ret[u] = R0
C2_DeinitReturns ==
    \A t \in Callers : pc[t] \in {"dtor", "join"} /\ OnlyCaller(t) => ~Stuck(t)

\* C3: an llm_generate call with valid arguments that finds no model loaded
\* returns: it never hangs, its result is -1, it has written nothing, and the
\* active-inference counter was not incremented for it.
C3_GenerateUnloadedFails ==
    /\ \A t \in Threads :
         loc[t].msg = "No model loaded" => pc[t] # "hung" /\ pc[t] # "gen_dec"
    /\ \A t \in Callers :
         ret[t].op = "generate" /\ ret[t].str = "No model loaded"
             => ret[t].val = -1 /\ ret[t].written = 0

\* C4: an llm_load_model call whose parameters are null or whose path cannot be
\* opened returns, with a negative status and its message in the error channel.
C4_LoadFailureReturns ==
    /\ \A t \in Callers : loc[t].op = "load_model" => pc[t] # "hung"
    /\ \A t \in Callers :
         ret[t].op = "load_model" /\ ret[t].str # "" => ret[t].val < 0

\* C5: no two requests created by successful llm_generate_async calls carry the
\* same id, and the ids of the K requests created so far are exactly 1..K.
C5_UniqueIds ==
    /\ \A i, j \in DOMAIN requests : i # j => requests[i].id # requests[j].id
    /\ {requests[i].id : i \in DOMAIN requests} = 1..Len(requests)

\* C6: with one submitter, a loaded model and no llm_deinit (SpecPool): the ids are
\* 1..K in submission order, every submitted request is eventually marked
\* completed and never more than once, and the active-inference counter is 0
\* whenever all submitted requests are completed.
AllCompleted ==
    /\ pc[Submitter] = "idle"
    /\ \A i \in DOMAIN requests : requests[i].completed
C6_AllComplete ==
    /\ [](\A i \in DOMAIN requests : requests[i].id = i /\ requests[i].ncompleted <= 1)
    /\ \A i \in 1..MaxReq :
         [](i \in DOMAIN requests => <>(i \in DOMAIN requests /\ requests[i].completed))
    /\ [](AllCompleted => g_active_inference_count = 0)
C6_Witness ==
    /\ Len(requests) = 3
    /\ Len(requests) > nworkers
    /\ nworkers >= MinPoolThreads
    /\ AllCompleted
    /\ g_active_inference_count = 0

InFlight == {i \in DOMAIN requests :
               (\E k \in DOMAIN deqOrder : deqOrder[k] = i) /\ ~requests[i].completed}
C8_CountsDequeued == ~crashed => g_active_inference_count = Cardinality(InFlight)

\* C8 amended: the counter is the number of llm_generate invocations, synchronous
\* or made by a task, that are between the increment and the decrement; so it is
\* never negative and never above the requests in flight plus the synchronous
\* calls in progress.
C8_CountsGenerate ==
    ~crashed =>
      /\ g_active_inference_count = Cardinality({t \in Threads : pc[t] = "gen_dec"})
      /\ g_active_inference_count >= 0
      /\ g_active_inference_count
           <= Cardinality(InFlight) + Cardinality({t \in Callers : loc[t].op = "generate"})
C8_Witness ==
    /\ g_active_inference_count = 1
    /\ \E w \in WorkerIds : pc[w] = "gen_dec" /\ loc[w].req \in InFlight

\* C9: tasks leave the queue in the order they were put in, and in a pool of one
\* worker they start in that order: the requests with ids 1, 2, 3 start first,
\* second and third (SpecPool).
C9_Fifo ==
    /\ \A k \in DOMAIN deqOrder : deqOrder[k] = enqOrder[k]
    /\ nworkers = 1 =>
         \A k \in DOMAIN startOrder :
            startOrder[k] = enqOrder[k] /\ requests[startOrder[k]].id = k
C9_Witness ==
    /\ nworkers = 1
    /\ Len(startOrder) = 3
    /\ \E w \in WorkerIds : pc[w] = "gen_lock"

\* C10: a load of a readable path does not fail, a load that succeeds returns 0,
\* and as long as no unload or deinit follows it llm_is_model_loaded returns 1,
\* llm_get_context_size returns n_ctx when n_ctx > 0 and 2048 otherwise, and the
\* thread count is n_threads when n_threads > 0 and 4 otherwise.
LoadInEffect == lastLoad # NoLoad
C10_LoadThenQuery ==
    /\ [](\A t \in Callers, p \in Readable :
            loc[t].msg # "Model file not found: " \o p)
    /\ [](LoadInEffect =>
            g_n_threads = (IF lastLoad.n_threads > 0 THEN lastLoad.n_threads ELSE 4))
    /\ [][\A t \in Callers :
            /\ llm_load_model(t) /\ pc'[t] = "idle" =>
                 ret'[t].val = 0 /\ lastLoad'.path \in Readable
            /\ llm_is_model_loaded(t) /\ LoadInEffect => ret'[t].val = 1
            /\ llm_get_context_size(t) /\ LoadInEffect =>
                 ret'[t].val = (IF lastLoad.n_ctx > 0 THEN lastLoad.n_ctx ELSE 2048)]_vars
C10_Witness ==
    /\ LoadInEffect
    /\ lastLoad.n_ctx <= 0
    /\ \E t \in Callers : ret[t].op = "get_context_size" /\ ret[t].val = 2048

\* C11: whenever no model is loaded, llm_get_context_size returns 0 and the
\* Threads value of llm_get_system_info is 0.
C11_ZeroWhenUnloaded ==
    [][\A t \in Callers :
         ~g_model_loaded =>
            /\ llm_get_context_size(t) => ret'[t].val = 0
            /\ llm_get_system_info(t) => ret'[t].val = 0]_vars

\* C12: llm_unload_model is idempotent: a call makes of the model state what
\* UnloadModel makes of it, a second call leaves that state as it is, and a call
\* made when no model is loaded changes nothing of the model state (loaded flag,
\* path, context size, thread count, last error).
C12_UnloadIdempotent ==
    /\ [](UnloadModel(UnloadModel(ModelState)) = UnloadModel(ModelState))
    /\ [][\A t \in Callers :
            llm_unload_model(t) =>
               /\ ModelState' = UnloadModel(ModelState)
               /\ ~g_model_loaded => ModelState' = ModelState]_vars

\* C13: an llm_generate_async call that finds no pool sets the error "Thread pool
\* not initialized" and returns -1; it creates no request, enqueues no task and
\* leaves request_id alone, so that the requests created by one thread have the
\* ids 1, 2, ... whatever the number of failed calls between them.
C13_NoPoolFails ==
    /\ [](\A i \in DOMAIN requests : requests[i].id = i)
    /\ [][\A t \in Callers :
            /\ llm_generate_async(t) /\ g_thread_pool = 0 =>
                 /\ pc'[t] = "seterr"
                 /\ loc'[t].msg = "Thread pool not initialized"
                 /\ <<requests, request_id, tasks, enqOrder>>'
                      = <<requests, request_id, tasks, enqOrder>>
            /\ SetError(t) /\ loc[t].op = "generate_async" =>
                 /\ ret'[t].val = -1
                 /\ g_last_error' = "Thread pool not initialized"
                 /\ <<requests, request_id, tasks, enqOrder>>'
                      = <<requests, request_id, tasks, enqOrder>>]_vars
C13_Witness ==
    /\ g_last_error = "Thread pool not initialized"
    /\ Len(requests) = 1
    /\ requests[1].id = 1
    /\ ret[Submitter].op = "generate_async"
    /\ ret[Submitter].val = 1

\* C14: the callback of a request is invoked at most once, and exactly once by
\* the time the request is completed if generation succeeded and a callback was
\* given, never otherwise; nothing of a request is written after completed is set;
\* and the worker that sets completed holds a lock while it does.
C14_CompletedLastUnderLock ==
    /\ [](\A i \in DOMAIN requests :
            /\ requests[i].cbCalls <= 1
            /\ requests[i].cbCalls = 1 => requests[i].success /\ requests[i].callback
            /\ requests[i].completed /\ requests[i].success =>
                 /\ requests[i].hasResult
                 /\ requests[i].callback => requests[i].cbCalls = 1)
    /\ [][\A i \in DOMAIN requests :
            requests[i].completed => requests'[i] = requests[i]]_vars
    /\ [][\A w \in WorkerIds :
            TaskComplete(w) => g_state_mutex = w \/ queue_mutex = w]_vars

\* C15: when the generation of a task has failed, the error the task stores on its
\* request is the message of its own failure.
C15_OwnError ==
    \A w \in WorkerIds :
       pc[w] = "task_complete" /\ loc[w].result <= 0
          => requests[loc[w].req].error = loc[w].msg

\* C16: no llm_generate call gets past the argument check with an empty prompt or
\* a capacity that is not positive, and a request whose prompt is empty (given
\* empty, or null and stored as empty) completes with success = false.
C16_EmptyPromptRejected ==
    /\ \A t \in Threads :
         pc[t] \in {"gen_lock", "gen_inc", "gen_dec"}
            => loc[t].prompt # "" /\ loc[t].prompt # NULL /\ loc[t].size > 0
    /\ \A i \in DOMAIN requests :
         requests[i].completed /\ requests[i].prompt = "" => ~requests[i].success

\* C17: a successful llm_generate with capacity c >= 1 returns min(L, c-1) for the
\* text length L, writes that many characters and one terminator, so never at an
\* index >= c, and sets no error, truncated or not.
Min(a, b) == IF a < b THEN a ELSE b
C17_Truncation ==
    /\ [](\A c \in (BufSizes \cup {PlaceholderLen, PlaceholderLen + 1}) \ {0} :
            GenLen(c) = Min(PlaceholderLen, c - 1) /\ GenLen(c) + 1 <= c)
    /\ [][\A t \in Callers :
            GenFinish(t) =>
               /\ loc[t].size >= 1
               /\ ret'[t].val = Min(PlaceholderLen, loc[t].size - 1)
               /\ ret'[t].written = ret'[t].val + 1
               /\ ret'[t].written <= loc[t].size
               /\ ret'[t].str = ""
               /\ g_last_error' = g_last_error]_vars
C17_Witness ==
    \E t \in Callers :
       /\ ret[t].op = "generate"
       /\ ret[t].val = 99
       /\ ret[t].written = 100
       /\ g_last_error = ""

\* C18: a step that reads or writes the model state (loaded flag, path, context
\* size, thread count) is never taken while another thread holds g_state_mutex.
RegistryAccess(t) ==
    \/ llm_load_model(t)
    \/ llm_is_model_loaded(t)
    \/ llm_unload_model(t)
    \/ llm_get_context_size(t)
    \/ llm_get_system_info(t)
    \/ llm_deinit(t)
    \/ GenCheck(t)
C18_RegistryUnderMutex ==
    [][\A t \in Threads :
         RegistryAccess(t) => \A u \in Threads \ {t} : g_state_mutex # u]_vars

\* C19: the process never dies in an enqueue, and every enqueue of
\* llm_generate_async goes to the pool its null check saw, with the stop flag of
\* that pool not set and a worker of it still running, and puts the task in the
\* queue.
C19_PoolAliveAtEnqueue ==
    /\ [](~crashed)
    /\ [][\A t \in Callers :
            AsyncEnqueue(t) =>
               /\ g_thread_pool # 0
               /\ g_thread_pool = loc[t].lp
               /\ ~stop
               /\ \E w \in PoolWorkers : pc[w] # "terminated"
               /\ enqOrder' = Append(enqOrder, loc[t].req)]_vars

\* C20: the worker that invokes a request's callback holds neither queue_mutex nor
\* g_state_mutex at that moment, so the locks llm_generate_async,
\* llm_is_model_loaded and llm_get_last_error take are not held by the thread the
\* callback runs on.
CallbackInvoked(w) ==
    /\ TaskAfter(w)
    /\ requests'[loc[w].req].cbCalls = requests[loc[w].req].cbCalls + 1
C20_CallbackHoldsNoLock ==
    [][\A w \in WorkerIds :
         CallbackInvoked(w) => g_state_mutex # w /\ queue_mutex # w]_vars
C20_Witness ==
    \E i \in DOMAIN requests :
       /\ requests[i].cbCalls = 1
       /\ requests[i].completed
       /\ g_state_mutex = NoThread
       /\ queue_mutex = NoThread
====
